---- MODULE Spec2Model ----
(***************************************************************************)
(* Model of the RAG evaluation utilities:                                  *)
(*   utils/utils.py                  strip_markdown                        *)
(*   utils/api_client.py             RAGAPIClient, generate_test_data_...   *)
(*   utils/convert_results_to_csv.py convert_json_to_csv                   *)
(*                                                                         *)
(* Texts that the code inspects character by character (source contents,   *)
(* URLs) are sequences; a URL is a sequence of path tokens, a content is a *)
(* sequence of one-character strings.  Texts the code only passes around   *)
(* (questions, answers, error messages, ids) are TLA+ strings.             *)
(***************************************************************************)
EXTENDS Integers, Sequences, FiniteSets, TLC

\* ------------------------------------------------------------------------
\* Bounds of the model
\* ------------------------------------------------------------------------
MaxUrlLen == 4
MaxSources == 2
MaxCases == 3
MaxResults == 2
MaxPassages == 3

\* ------------------------------------------------------------------------
\* Generic helpers
\* ------------------------------------------------------------------------
Min(S) == CHOOSE x \in S : \A y \in S : x <= y

\* dict.get(key, default) on a dict modelled as a function over its keys
Get(d, k, default) == IF k \in DOMAIN d THEN d[k] ELSE default

\* s[i..i+Len(pat)-1] == pat
IsAt(s, pat, i) ==
    /\ i >= 1
    /\ i + Len(pat) - 1 <= Len(s)
    /\ SubSeq(s, i, i + Len(pat) - 1) = pat

\* the regex '.' (without DOTALL) matches every character of s[a..b]
NoNewline(s, a, b) == \A n \in a..b : s[n] /= "\n"

IsSpace(c) == c \in {" ", "\n", "\t"}

\* the backquote character of a content (every character is a one-element
\* string; the backquote is spelled out)
BackTick == "backquote"

\* ------------------------------------------------------------------------
\* utils.strip_markdown: six re.sub passes, each a leftmost, non-overlapping
\* scan.  A match is [end |-> last matched index, rep |-> replacement];
\* end = 0 means "no match at this index".
\* ------------------------------------------------------------------------
NoMatch == [end |-> 0, rep |-> <<>>]

\* delim .*? delim, replaced by keep-the-inside or by nothing
DelimMatch(s, i, delim, dotall, keepInner) ==
    LET n  == Len(delim)
        Js == {j \in (i + n)..Len(s) : IsAt(s, delim, j)}
    IN  IF ~IsAt(s, delim, i) \/ Js = {} THEN NoMatch
        ELSE LET j == Min(Js)
             IN  IF ~dotall /\ ~NoNewline(s, i + n, j - 1) THEN NoMatch
                 ELSE [end |-> j + n - 1,
                       rep |-> IF keepInner THEN SubSeq(s, i + n, j - 1) ELSE <<>>]

\* !\[.*?\]\(.*?\)
ImageMatch(s, i) ==
    LET Ks(j) == {k \in (j + 2)..Len(s) : s[k] = ")" /\ NoNewline(s, j + 2, k - 1)}
        Js == {j \in (i + 2)..(Len(s) - 1) :
                  /\ s[j] = "]" /\ s[j + 1] = "("
                  /\ NoNewline(s, i + 2, j - 1)
                  /\ Ks(j) /= {}}
    IN  IF ~IsAt(s, <<"!", "[">>, i) \/ Js = {} THEN NoMatch
        ELSE [end |-> Min(Ks(Min(Js))), rep |-> <<>>]

\* \[([^\]]+)\]\([^\)]+\)  ->  \1
LinkMatch(s, i) ==
    LET Js == {j \in (i + 1)..Len(s) : s[j] = "]"}
    IN  IF ~IsAt(s, <<"[">>, i) \/ Js = {} THEN NoMatch
        ELSE LET j  == Min(Js)
                 Ks == {k \in (j + 2)..Len(s) : s[k] = ")"}
             IN  IF j < i + 2 \/ ~IsAt(s, <<"(">>, j + 1) \/ Ks = {} THEN NoMatch
                 ELSE IF Min(Ks) < j + 3 THEN NoMatch
                 ELSE [end |-> Min(Ks), rep |-> SubSeq(s, i + 1, j - 1)]

\* ^#+\s*  with re.MULTILINE
HeadingMatch(s, i) ==
    LET atLineStart == i = 1 \/ s[i - 1] = "\n"
        hashEnd  == Min({e \in i..Len(s) : e = Len(s) \/ s[e + 1] /= "#"})
        spaceEnd == Min({e \in hashEnd..Len(s) : e = Len(s) \/ ~IsSpace(s[e + 1])})
    IN  IF ~(atLineStart /\ s[i] = "#") THEN NoMatch
        ELSE [end |-> spaceEnd, rep |-> <<>>]

\* (\*\*|__|\*|_)(.*?)\1  ->  \2 ; the alternatives are tried in order
EmphasisMatch(s, i) ==
    LET m1 == DelimMatch(s, i, <<"*", "*">>, FALSE, TRUE)
        m2 == DelimMatch(s, i, <<"_", "_">>, FALSE, TRUE)
        m3 == DelimMatch(s, i, <<"*">>, FALSE, TRUE)
        m4 == DelimMatch(s, i, <<"_">>, FALSE, TRUE)
    IN  IF m1.end /= 0 THEN m1
        ELSE IF m2.end /= 0 THEN m2
        ELSE IF m3.end /= 0 THEN m3
        ELSE m4

MatchAt(pass, s, i) ==
    CASE pass = 1 -> DelimMatch(s, i, <<BackTick, BackTick, BackTick>>, TRUE, FALSE)
      [] pass = 2 -> DelimMatch(s, i, <<BackTick>>, FALSE, FALSE)
      [] pass = 3 -> ImageMatch(s, i)
      [] pass = 4 -> LinkMatch(s, i)
      [] pass = 5 -> HeadingMatch(s, i)
      [] pass = 6 -> EmphasisMatch(s, i)

RECURSIVE ReSub(_, _, _, _)
ReSub(pass, s, i, acc) ==
    IF i > Len(s) THEN acc
    ELSE LET m == MatchAt(pass, s, i)
         IN  IF m.end /= 0 THEN ReSub(pass, s, m.end + 1, acc \o m.rep)
             ELSE ReSub(pass, s, i + 1, Append(acc, s[i]))

RECURSIVE StripPasses(_, _)
StripPasses(pass, s) ==
    IF pass > 6 THEN s ELSE StripPasses(pass + 1, ReSub(pass, s, 1, <<>>))

strip_markdown(text) == StripPasses(1, text)


\* ------------------------------------------------------------------------
\* Python values
\* ------------------------------------------------------------------------
EmptyDict == [k \in {} |-> k]

\* dict[key] = value
Put(d, k, v) == (k :> v) @@ d

\* a str and a list are different values even when both are empty
PyStr(chars) == [ty |-> "str", v |-> chars]
PyList(items) == [ty |-> "list", v |-> items]

\* the outcome of calling a function: a returned value or a raised exception
Return(value) == [kind |-> "return", value |-> value, exc |-> "", msg |-> ""]
Raise(exc, msg) == [kind |-> "raise", value |-> EmptyDict, exc |-> exc, msg |-> msg]

\* ------------------------------------------------------------------------
\* The HTTP layer (requests): what one request can come back with
\* ------------------------------------------------------------------------
\* a JSON body that is an object, and one that is not (a JSON array)
JsonObject(d) == [ty |-> "dict", v |-> d]
JsonArray == [ty |-> "list", v |-> EmptyDict]

RequestRaises(exc) == [kind |-> "raise", exc |-> exc, status |-> 0, body |-> JsonArray]
HttpResponse(status, body) == [kind |-> "response", exc |-> "", status |-> status, body |-> body]

\* subclasses of requests.exceptions.RequestException raised by requests.post
TransportExceptions == {"ConnectionError", "Timeout"}

StatusCodes == {200, 400, 404, 422, 500}

\* Response.raise_for_status raises HTTPError for 4xx and 5xx
RaisesForStatus(status) == status >= 400 /\ status < 600

\* str(e) of the exception a failed request ends with
ExcMessage(outcome) ==
    IF outcome.kind = "raise" THEN outcome.exc
    ELSE CASE outcome.status = 400 -> "400 Client Error"
           [] outcome.status = 404 -> "404 Client Error"
           [] outcome.status = 422 -> "422 Client Error"
           [] OTHER -> "500 Server Error"

\* ------------------------------------------------------------------------
\* URLs: "http://h" followed by path tokens
\* ------------------------------------------------------------------------
Host == "http://h"
UrlTokens == {"/", "api", "v1", "x"}
ApiSuffix == <<"/", "api", "v1">>

RECURSIVE RStripSlash(_)
RStripSlash(u) ==
    IF Len(u) > 0 /\ u[Len(u)] = "/" THEN RStripSlash(SubSeq(u, 1, Len(u) - 1)) ELSE u

EndsWith(u, suffix) ==
    /\ Len(u) >= Len(suffix)
    /\ SubSeq(u, Len(u) - Len(suffix) + 1, Len(u)) = suffix

\* variant: the trailing slashes are not removed
NormalizeBaseUrl_NoStrip(base) ==
    IF ~EndsWith(base, ApiSuffix) THEN base \o ApiSuffix ELSE base

\* RAGAPIClient.__init__: self.base_url
NormalizeBaseUrl(base) ==
    LET stripped == RStripSlash(base)
    IN  IF ~EndsWith(stripped, ApiSuffix) THEN stripped \o ApiSuffix ELSE stripped

\* RAGAPIClient.__init__: self.ask_endpoint
AskEndpoint(base) == base \o <<"/", "history", "/", "ask-with-history">>

\* urlsplit(base_url): scheme://netloc
ServerRoot(base) == <<base[1]>>

\* ------------------------------------------------------------------------
\* RAGAPIClient.ask_question and ask_question_with_strategy
\* conversation_id is "" for None (both are falsy)
\* ------------------------------------------------------------------------
FailureRecord(message) ==
    [success |-> FALSE, error |-> message, answer |-> "", sources |-> <<>>]

Payload(question, conversation_id) ==
    IF conversation_id /= "" THEN [question |-> question, conversation_id |-> conversation_id]
    ELSE [question |-> question]

\* variant: only connection errors and timeouts are caught, an HTTPError of
\* raise_for_status leaves the method
ask_question_HttpErrorEscapes(endpoint, question, conversation_id, outcome) ==
    LET request == [method |-> "POST", url |-> endpoint,
                    json |-> Payload(question, conversation_id), timeout |-> 50]
        result ==
            IF outcome.kind = "raise" THEN
                IF outcome.exc \in TransportExceptions
                THEN Return(FailureRecord(ExcMessage(outcome)))
                ELSE Raise(outcome.exc, outcome.exc)
            ELSE IF RaisesForStatus(outcome.status)
                THEN Raise("HTTPError", ExcMessage(outcome))
            ELSE IF outcome.body.ty /= "dict"
                THEN Raise("AttributeError", "'list' object has no attribute 'get'")
            ELSE Return(outcome.body.v)
    IN  [request |-> request, result |-> result]

ask_question(endpoint, question, conversation_id, outcome) ==
    LET request == [method |-> "POST", url |-> endpoint,
                    json |-> Payload(question, conversation_id), timeout |-> 50]
        result ==
            IF outcome.kind = "raise" THEN
                IF outcome.exc \in TransportExceptions
                THEN Return(FailureRecord(ExcMessage(outcome)))
                ELSE Raise(outcome.exc, outcome.exc)
            ELSE IF RaisesForStatus(outcome.status)
                THEN Return(FailureRecord(ExcMessage(outcome)))
            ELSE IF outcome.body.ty /= "dict"
                THEN Raise("AttributeError", "'list' object has no attribute 'get'")
            ELSE Return(outcome.body.v)
    IN  [request |-> request, result |-> result]

ask_question_with_strategy(base, question, strategy, conversation_id, outcome) ==
    LET endpoint == base \o <<"/", "testing", "/", "strategy", "/", strategy>>
        request == [method |-> "POST", url |-> endpoint,
                    json |-> Payload(question, conversation_id), timeout |-> 50]
        result ==
            IF outcome.kind = "raise" THEN
                IF outcome.exc \in TransportExceptions
                THEN Return(FailureRecord(ExcMessage(outcome)))
                ELSE Raise(outcome.exc, outcome.exc)
            ELSE IF RaisesForStatus(outcome.status)
                THEN Return(FailureRecord(ExcMessage(outcome)))
            ELSE IF outcome.body.ty /= "dict"
                THEN Raise("AttributeError", "'list' object has no attribute 'get'")
            ELSE Return(outcome.body.v)
    IN  [request |-> request, result |-> result]

\* ------------------------------------------------------------------------
\* RAGAPIClient.check_health
\* ------------------------------------------------------------------------
\* variant: the fallback is also taken when the GET answers without a 200
check_health_FallbackOnStatus(base, endpoint, getOutcome, postOutcome) ==
    LET get  == [method |-> "GET", url |-> ServerRoot(base), timeout |-> 5]
        post == [method |-> "POST", url |-> endpoint,
                 json |-> [question |-> "test"], timeout |-> 5]
    IN  IF getOutcome.kind = "response" /\ getOutcome.status = 200
        THEN [requests |-> <<get>>, result |-> TRUE]
        ELSE IF postOutcome.kind = "response"
        THEN [requests |-> <<get, post>>, result |-> postOutcome.status \in {200, 400, 422}]
        ELSE [requests |-> <<get, post>>, result |-> FALSE]

check_health(base, endpoint, getOutcome, postOutcome) ==
    LET get  == [method |-> "GET", url |-> ServerRoot(base), timeout |-> 5]
        post == [method |-> "POST", url |-> endpoint,
                 json |-> [question |-> "test"], timeout |-> 5]
    IN  IF getOutcome.kind = "response"
        THEN [requests |-> <<get>>, result |-> getOutcome.status = 200]
        ELSE IF postOutcome.kind = "response"
        THEN [requests |-> <<get, post>>, result |-> postOutcome.status \in {200, 400, 422}]
        ELSE [requests |-> <<get, post>>, result |-> FALSE]


\* ------------------------------------------------------------------------
\* RAGAPIClient.format_response
\* A source is a dict (with or without 'content') or, in a malformed
\* response, something that is not a dict.
\* ------------------------------------------------------------------------
SourceDict(d) == [ty |-> "dict", v |-> d]
SourceNotDict == [ty |-> "str", v |-> EmptyDict]

\* variant: the filtered contents are appended without the emptiness test
RECURSIVE ContextArray_KeepsEmpty(_, _)
ContextArray_KeepsEmpty(sources, context_array) ==
    IF sources = <<>> THEN context_array
    ELSE ContextArray_KeepsEmpty(Tail(sources),
            Append(context_array, strip_markdown(Get(Head(sources).v, "content", <<>>))))

RECURSIVE ContextArray(_, _)
ContextArray(sources, context_array) ==
    IF sources = <<>> THEN context_array
    ELSE LET content == Get(Head(sources).v, "content", <<>>)
             stripped_content == strip_markdown(content)
         IN  ContextArray(Tail(sources),
                          IF stripped_content /= <<>>
                          THEN Append(context_array, stripped_content)
                          ELSE context_array)

format_response(response) ==
    IF ~Get(response, "success", FALSE) THEN
        Return([answer |-> "",
                context |-> PyStr(<<>>),
                sources |-> <<>>,
                error |-> Get(response, "error", "Unknown error")])
    ELSE LET answer == Get(response, "answer", "")
             sources == Get(response, "sources", <<>>)
         IN  IF \E n \in 1..Len(sources) : sources[n].ty /= "dict"
             THEN Raise("AttributeError", "'str' object has no attribute 'get'")
             ELSE Return([question |-> Get(response, "original_question", ""),
                          answer |-> answer,
                          context |-> PyList(ContextArray(sources, <<>>)),
                          sources |-> sources,
                          conversation_id |-> Get(response, "conversation_id", ""),
                          suggestions |-> Get(response, "suggestions", <<>>),
                          metadata |-> Get(response, "metadata", EmptyDict),
                          processing_time |->
                              Get(Get(response, "metadata", EmptyDict), "processing_time", 0)])


\* ------------------------------------------------------------------------
\* utils.load_json / utils.save_json (imported by the batch driver)
\* A file is absent or holds a JSON value.
\* ------------------------------------------------------------------------
NoFile == [exists |-> FALSE, data |-> <<>>]
load_json(file) == file.data
save_json(data, file) == [exists |-> TRUE, data |-> data]

\* ------------------------------------------------------------------------
\* generate_test_data_from_api: the body of the per-item loop
\* ------------------------------------------------------------------------
\* variant: the handler records no error
OnException_NoError(testcase, message) == Put(testcase, "actual_output", "")

\* except Exception as e: ...
OnException(testcase, message) ==
    Put(Put(testcase, "actual_output", ""), "error", message)

\* try: ... ; the assignments made before an exception are kept
ItemStep(testcase, endpoint, outcome) ==
    LET question == Get(testcase, "question", "")
        response == ask_question(endpoint, question, "", outcome).result
    IN  IF response.kind = "raise" THEN OnException(testcase, response.msg)
        ELSE LET formatted == format_response(response.value)
             IN  IF formatted.kind = "raise" THEN OnException(testcase, formatted.msg)
                 ELSE LET f  == formatted.value
                          t1 == Put(testcase, "actual_output", f["answer"])
                          t2 == Put(t1, "generated_answer", f["answer"])
                          t3 == Put(t2, "generated_context", f["context"])
                          t4 == Put(t3, "api_sources", f["sources"])
                      IN  IF "metadata" \notin DOMAIN f
                          THEN OnException(t4, "'metadata'")
                          ELSE IF "processing_time" \notin DOMAIN f
                          THEN OnException(Put(t4, "api_metadata", f["metadata"]),
                                           "'processing_time'")
                          ELSE Put(Put(t4, "api_metadata", f["metadata"]),
                                   "processing_time", f["processing_time"])

\* variant: the result of the health check is not acted upon
AfterHealthCheck_Ignored(health) == "loop"

\* if not client.check_health(): return
AfterHealthCheck(health) == IF ~health THEN "returned" ELSE "loop"

\* ------------------------------------------------------------------------
\* convert_results_to_csv.convert_json_to_csv
\* ------------------------------------------------------------------------
RECURSIVE Decimal(_)
Decimal(n) ==
    LET digit == <<"0", "1", "2", "3", "4", "5", "6", "7", "8", "9">>[(n % 10) + 1]
    IN  IF n < 10 THEN <<digit>> ELSE Append(Decimal(n \div 10), digit)

\* f"[{idx}]"
PassageId(idx) == <<"[">> \o Decimal(idx) \o <<"]">>

\* the rows of one result; the result has the keys the loop body reads
ResultRows(result) ==
    LET testcase_id == result["question_id"]
        question == result["question"]
        generated_answer == result["answer"]
        contexts == Get(result, "contexts", <<>>)
    IN  IF contexts /= <<>>
        THEN [idx \in 1..Len(contexts) |->
                [query_id |-> testcase_id,
                 query |-> question,
                 query_run |-> 1,
                 passage_id |-> PassageId(idx),
                 passage |-> Get(contexts[idx], "content", <<>>),
                 generated_answer |-> IF idx = 1 THEN generated_answer ELSE ""]]
        ELSE << [query_id |-> testcase_id,
                 query |-> question,
                 query_run |-> 1,
                 passage_id |-> <<"[", "1", "]">>,
                 passage |-> <<>>,
                 generated_answer |-> generated_answer] >>

\* result['question_id'], result['question'], result['answer'] raise KeyError
\* on the first key that is missing
MissingKey(result) ==
    IF "question_id" \notin DOMAIN result THEN "question_id"
    ELSE IF "question" \notin DOMAIN result THEN "question"
    ELSE IF "answer" \notin DOMAIN result THEN "answer"
    ELSE ""

RECURSIVE CsvLoop(_, _)
CsvLoop(results, rows) ==
    IF results = <<>> THEN [status |-> "written", rows |-> rows, exc |-> ""]
    ELSE IF MissingKey(Head(results)) /= ""
    THEN [status |-> "raised", rows |-> <<>>, exc |-> MissingKey(Head(results))]
    ELSE CsvLoop(Tail(results), rows \o ResultRows(Head(results)))

\* the rows are written to csv_file after the loop, when no result raised
convert_json_to_csv(results) == CsvLoop(results, <<>>)


\* ========================================================================
\* State
\* ========================================================================
VARIABLES
    base_arg,      \* the base_url argument the client was constructed with
    base_url,      \* RAGAPIClient.base_url
    ask_endpoint,  \* RAGAPIClient.ask_endpoint
    op,            \* the client method called last
    input,         \* its arguments
    output,        \* what it returned or raised
    pc,            \* generate_test_data_from_api: position in the function
    testcases,     \* generate_test_data_from_api: the list being augmented
    idx,           \* generate_test_data_from_api: loop position (1-based)
    output_file,   \* the file at output_file
    healthy,       \* what check_health returned to the driver
    served,        \* what the service did on each ask_question of the run
    results,       \* convert_json_to_csv: the loaded results collection
    csv_status,    \* convert_json_to_csv: "ready", "written" or "raised"
    csv_rows       \* the rows written to csv_file

clientVars == <<base_arg, base_url, ask_endpoint, op, input, output>>
batchVars == <<pc, testcases, idx, output_file, healthy, served>>
csvVars == <<results, csv_status, csv_rows>>
vars == <<clientVars, batchVars, csvVars>>

\* ------------------------------------------------------------------------
\* Inputs
\* ------------------------------------------------------------------------
SeqsUpTo(S, n) == UNION {[1..m -> S] : m \in 0..n}

Addresses == {<<Host>> \o tail : tail \in SeqsUpTo(UrlTokens, MaxUrlLen)}
DefaultApiUrl == <<Host>>

Questions == {"q1"}
ConversationIds == {"", "c1"}
Strategies == {"traditional", "self-rag"}

\* contents: "", "a", a code span, an emphasis, a bare heading marker
Contents ==
    {<<>>, <<"a">>, <<BackTick, "a", BackTick>>, <<"*", "a", "*">>, <<"#", " ">>}
Sources ==
    {SourceDict("content" :> c) : c \in Contents} \cup {SourceDict(EmptyDict), SourceNotDict}
Metadatas == {"absent", "empty", "timed"}

\* a response body of the service; success is "true", "false" or "absent",
\* error is "" when the body has no error field
ServiceResponse(success, error, answer, sources, metadata) ==
    (IF success = "absent" THEN EmptyDict ELSE "success" :> (success = "true"))
    @@ (IF error = "" THEN EmptyDict ELSE "error" :> error)
    @@ ("answer" :> answer)
    @@ ("sources" :> sources)
    @@ (CASE metadata = "absent" -> EmptyDict
          [] metadata = "empty" -> "metadata" :> EmptyDict
          [] OTHER -> "metadata" :> ("processing_time" :> 7))

ServiceResponses ==
    {ServiceResponse(su, er, "a1", so, me) :
        su \in {"true", "false", "absent"}, er \in {"", "boom"},
        so \in SeqsUpTo(Sources, MaxSources), me \in Metadatas}

\* what a POST to an ask endpoint can come back with
AskBodies ==
    {JsonArray,
     JsonObject(ServiceResponse("true", "", "a1", <<>>, "timed")),
     JsonObject(ServiceResponse("false", "boom", "", <<>>, "absent"))}
AskOutcomes ==
    {RequestRaises(e) : e \in TransportExceptions}
    \cup {HttpResponse(st, b) : st \in {200, 404, 500}, b \in AskBodies}

\* what the requests of check_health can come back with
HealthOutcomes ==
    {RequestRaises("ConnectionError")} \cup {HttpResponse(st, JsonArray) : st \in StatusCodes}

\* ========================================================================
\* Spec: a client and the calls made on it
\* ========================================================================
IdleBatch ==
    /\ pc = "idle" /\ testcases = <<>> /\ idx = 0
    /\ output_file = NoFile /\ healthy = FALSE /\ served = <<>>

IdleCsv == results = <<>> /\ csv_status = "idle" /\ csv_rows = <<>>

IdleClient ==
    /\ base_arg = DefaultApiUrl
    /\ base_url = NormalizeBaseUrl(DefaultApiUrl)
    /\ ask_endpoint = AskEndpoint(NormalizeBaseUrl(DefaultApiUrl))
    /\ op = "idle" /\ input = <<>> /\ output = <<>>

\* RAGAPIClient(base_url = address)
Init ==
    /\ base_arg \in Addresses
    /\ base_url = NormalizeBaseUrl(base_arg)
    /\ ask_endpoint = AskEndpoint(base_url)
    /\ op = "__init__" /\ input = <<>> /\ output = <<>>
    /\ IdleBatch /\ IdleCsv

AskQuestion ==
    \E question \in Questions, conversation_id \in ConversationIds, outcome \in AskOutcomes :
        /\ op' = "ask_question"
        /\ input' = [question |-> question, conversation_id |-> conversation_id,
                     strategy |-> "", outcome |-> outcome]
        /\ output' = ask_question(ask_endpoint, question, conversation_id, outcome)
        /\ UNCHANGED <<base_arg, base_url, ask_endpoint, batchVars, csvVars>>

AskQuestionWithStrategy ==
    \E question \in Questions, strategy \in Strategies,
       conversation_id \in ConversationIds, outcome \in AskOutcomes :
        /\ op' = "ask_question_with_strategy"
        /\ input' = [question |-> question, conversation_id |-> conversation_id,
                     strategy |-> strategy, outcome |-> outcome]
        /\ output' = ask_question_with_strategy(base_url, question, strategy,
                                                conversation_id, outcome)
        /\ UNCHANGED <<base_arg, base_url, ask_endpoint, batchVars, csvVars>>

CheckHealth ==
    \E getOutcome \in HealthOutcomes, postOutcome \in HealthOutcomes :
        /\ op' = "check_health"
        /\ input' = [get |-> getOutcome, post |-> postOutcome]
        /\ output' = check_health(base_url, ask_endpoint, getOutcome, postOutcome)
        /\ UNCHANGED <<base_arg, base_url, ask_endpoint, batchVars, csvVars>>

Next == AskQuestion \/ AskQuestionWithStrategy \/ CheckHealth

Spec == Init /\ [][Next]_vars

\* ========================================================================
\* FormatSpec: format_response applied to a response
\* ========================================================================
FormatInit ==
    /\ base_arg = DefaultApiUrl
    /\ base_url = NormalizeBaseUrl(DefaultApiUrl)
    /\ ask_endpoint = AskEndpoint(base_url)
    /\ op = "response"
    /\ input \in ServiceResponses
    /\ output = <<>>
    /\ IdleBatch /\ IdleCsv

FormatResponse ==
    /\ op = "response"
    /\ op' = "format_response"
    /\ output' = format_response(input)
    /\ UNCHANGED <<base_arg, base_url, ask_endpoint, input, batchVars, csvVars>>

FormatNext == FormatResponse

FormatSpec == FormatInit /\ [][FormatNext]_vars


\* ========================================================================
\* BatchSpec: one run of generate_test_data_from_api
\* ========================================================================
\* the file at testcases_file: up to MaxCases test cases with id and question
TestCase(n) == [id |-> <<"tc", n>>, question |-> <<"question", n>>]
TestcaseFiles == {[n \in 1..m |-> TestCase(n)] : m \in 0..MaxCases}

\* the file at output_file before the run: absent, or left by an earlier run
EarlierOutput == [exists |-> TRUE, data |-> <<[id |-> <<"tc", 0>>]>>]

\* what the service does on the ask_question of one test case
BatchBodies ==
    {JsonArray, JsonObject(ServiceResponse("false", "boom", "", <<>>, "absent"))}
    \cup {JsonObject(ServiceResponse("true", "", an, so, me)) :
            an \in {"a1", "a2"},
            so \in {<<>>, <<SourceDict("content" :> <<"*", "a", "*">>)>>, <<SourceNotDict>>},
            me \in {"absent", "timed"}}
BatchOutcomes ==
    {RequestRaises("ConnectionError"), HttpResponse(500, JsonArray)}
    \cup {HttpResponse(200, b) : b \in BatchBodies}

BatchInit ==
    /\ IdleClient /\ IdleCsv
    /\ pc = "start"
    /\ testcases = <<>>
    /\ idx = 0
    /\ output_file \in {NoFile, EarlierOutput}
    /\ healthy = FALSE
    /\ served = <<>>

\* testcases = load_json(...); client = RAGAPIClient(api_url); check_health
Start ==
    \E file \in TestcaseFiles, getOutcome \in HealthOutcomes, postOutcome \in HealthOutcomes :
        LET base == NormalizeBaseUrl(DefaultApiUrl)
            health == check_health(base, AskEndpoint(base), getOutcome, postOutcome).result
        IN  /\ pc = "start"
            /\ testcases' = load_json([exists |-> TRUE, data |-> file])
            /\ healthy' = health
            /\ pc' = AfterHealthCheck(health)
            /\ idx' = 1
            /\ UNCHANGED <<output_file, served, clientVars, csvVars>>

\* variant: no try/except around the call, a failed call ends the run
Item_StopsOnFailedCall ==
    \E outcome \in BatchOutcomes :
        /\ pc = "loop"
        /\ idx <= Len(testcases)
        /\ testcases' = [testcases EXCEPT ![idx] = ItemStep(testcases[idx], ask_endpoint, outcome)]
        /\ served' = Append(served, outcome)
        /\ idx' = idx + 1
        /\ pc' = IF outcome.kind = "raise" \/ outcome.status >= 400 THEN "returned" ELSE "loop"
        /\ UNCHANGED <<output_file, healthy, clientVars, csvVars>>

\* one iteration of: for testcase in testcases
Item ==
    \E outcome \in BatchOutcomes :
        /\ pc = "loop"
        /\ idx <= Len(testcases)
        /\ testcases' = [testcases EXCEPT ![idx] = ItemStep(testcases[idx], ask_endpoint, outcome)]
        /\ served' = Append(served, outcome)
        /\ idx' = idx + 1
        /\ UNCHANGED <<pc, output_file, healthy, clientVars, csvVars>>

\* save_json(testcases, output_file)
Save ==
    /\ pc = "loop"
    /\ idx > Len(testcases)
    /\ output_file' = save_json(testcases, output_file)
    /\ pc' = "done"
    /\ UNCHANGED <<testcases, idx, healthy, served, clientVars, csvVars>>

BatchNext == Start \/ Item \/ Save

BatchSpec == BatchInit /\ [][BatchNext]_vars

\* the function runs to its end: nothing but the per-call timeouts delays it
BatchFairSpec == BatchSpec /\ WF_vars(BatchNext)

\* ========================================================================
\* CsvSpec: convert_json_to_csv applied to a results collection
\* ========================================================================
Passage(n, withContent) ==
    IF withContent THEN "content" :> <<"passage", n>> ELSE EmptyDict
PassageLists ==
    {[n \in 1..m |-> Passage(n, n < m \/ lastHasContent)] :
        m \in 0..MaxPassages, lastHasContent \in BOOLEAN}

\* shape "contexts": question_id / answer / contexts
\* shape "sources":  testcase_id / actual_output / sources
Result(shape, id, passages) ==
    IF shape = "contexts"
    THEN [question_id |-> id, question |-> "what", answer |-> "ans", contexts |-> passages]
    ELSE [testcase_id |-> id, question |-> "what", actual_output |-> "ans", sources |-> passages]

ResultSet ==
    {Result(sh, id, ps) : sh \in {"contexts", "sources"}, id \in {"id1", "id2"}, ps \in PassageLists}
    \cup {[question_id |-> "id1", question |-> "what", answer |-> "ans"]}

CsvInit ==
    /\ IdleClient /\ IdleBatch
    /\ results \in SeqsUpTo(ResultSet, MaxResults)
    /\ csv_status = "ready"
    /\ csv_rows = <<>>

Convert ==
    /\ csv_status = "ready"
    /\ csv_status' = convert_json_to_csv(results).status
    /\ csv_rows' = convert_json_to_csv(results).rows
    /\ UNCHANGED <<results, clientVars, batchVars>>

CsvNext == Convert

CsvSpec == CsvInit /\ [][CsvNext]_vars


\* ========================================================================
\* Properties
\* ========================================================================

\* ---- format_response ---------------------------------------------------
FormattedFailure == op = "format_response" /\ ~Get(input, "success", FALSE)

\* C1: for a response whose success is false or absent, format_response
\* returns context = [] (the empty list) and the response's error string.
C1_FailureHasEmptyListContext ==
    FormattedFailure =>
        /\ output.kind = "return"
        /\ output.value["context"] = PyList(<<>>)
        /\ "error" \in DOMAIN input => output.value["error"] = input["error"]

AllSourcesAreDicts(response) ==
    \A n \in 1..Len(response["sources"]) : response["sources"][n].ty = "dict"

FormattedSuccess ==
    /\ op = "format_response"
    /\ Get(input, "success", FALSE)
    /\ AllSourcesAreDicts(input)

\* the filtered content of the n-th source of the response
Filtered(response, n) == strip_markdown(Get(response["sources"][n].v, "content", <<>>))

Asked == op \in {"ask_question", "ask_question_with_strategy"}

\* connection refused, timeout, or a status raise_for_status raises on
TransportFailure(outcome) == outcome.kind = "raise" \/ outcome.status >= 400

\* C4: on a transport-level failure both operations return the failure
\* record {success: false, error: message, answer: "", sources: []} and
\* raise nothing; they translate the failure identically and send the same
\* request except for its destination path.
C4_TransportFailureBecomesRecord ==
    (Asked /\ TransportFailure(input.outcome)) =>
        /\ output.result.kind = "return"
        /\ output.result.value =
              [success |-> FALSE, error |-> ExcMessage(input.outcome),
               answer |-> "", sources |-> <<>>]
        /\ \A strategy \in Strategies :
              LET plain == ask_question(ask_endpoint, input.question,
                                        input.conversation_id, input.outcome)
                  named == ask_question_with_strategy(base_url, input.question, strategy,
                                                      input.conversation_id, input.outcome)
              IN  /\ plain.result = named.result
                  /\ [plain.request EXCEPT !.url = <<>>] = [named.request EXCEPT !.url = <<>>]
                  /\ plain.request.url = base_url \o <<"/", "history", "/", "ask-with-history">>
                  /\ named.request.url = base_url \o <<"/", "testing", "/", "strategy", "/", strategy>>

\* a strategy call answered with status 500
C4_Witness ==
    /\ op = "ask_question_with_strategy"
    /\ input.outcome.kind = "response"
    /\ input.outcome.status = 500
    /\ output.result.kind = "return"

\* ---- check_health ------------------------------------------------------
HealthChecked == op = "check_health"

GetRoot == [method |-> "GET", url |-> <<Host>>, timeout |-> 5]
PostTest == [method |-> "POST", url |-> ask_endpoint,
             json |-> [question |-> "test"], timeout |-> 5]

Occurrences(u) == {n \in 1..(Len(u) - 2) : SubSeq(u, n, n + 2) = ApiSuffix}

\* the last position of a URL that is not a trailing slash
LastNonSlash(u) == CHOOSE n \in 1..Len(u) :
    u[n] /= "/" /\ \A m \in (n + 1)..Len(u) : u[m] = "/"

\* C9 (as stated): base_url contains /api/v1 exactly once, at its end;
\* ask_endpoint is base_url + /history/ask-with-history; a normalized
\* base_url is a fixed point of the constructor.
C9_SuffixExactlyOnce ==
    /\ Cardinality(Occurrences(base_url)) = 1
    /\ Occurrences(base_url) = {Len(base_url) - 2}
    /\ ask_endpoint = base_url \o <<"/", "history", "/", "ask-with-history">>
    /\ NormalizeBaseUrl(base_url) = base_url

\* C9 (amended): base_url ends with /api/v1 and has no trailing slash;
\* /api/v1 occurs in it exactly once unless the given address, trailing
\* slashes aside, contains /api/v1 before its end; ask_endpoint is
\* base_url + /history/ask-with-history; a normalized base_url is a fixed
\* point of the constructor.
C9_SuffixAtEnd ==
    /\ (Len(base_url) - 2) \in Occurrences(base_url)
    /\ (Cardinality(Occurrences(base_url)) = 1) <=>
          (\A n \in Occurrences(base_arg) : n + 2 = LastNonSlash(base_arg))
    /\ ask_endpoint = base_url \o <<"/", "history", "/", "ask-with-history">>
    /\ NormalizeBaseUrl(base_url) = base_url

\* an address with /api/v1 followed by another segment: the suffix is
\* appended and occurs twice
C9_Witness ==
    /\ op = "__init__"
    /\ base_arg = <<Host, "/", "api", "v1", "x">>
    /\ base_url = <<Host, "/", "api", "v1", "x", "/", "api", "v1">>
    /\ Cardinality(Occurrences(base_url)) = 2


\* ---- generate_test_data_from_api ---------------------------------------
\* C2: when check_health returns false the run ends with no ask_question
\* made and the output file as it was; whenever a question has been asked
\* or the output file has been written, check_health had returned true.
C2_NoHealthNoOutput ==
    /\ pc = "returned" => ~healthy
    /\ ~healthy => (served = <<>> /\ output_file \in {NoFile, EarlierOutput})
    /\ (served /= <<>> \/ output_file \notin {NoFile, EarlierOutput}) => healthy

\* the run has ended on a failed health check, with test cases loaded
C2_Witness ==
    /\ pc = "returned"
    /\ ~healthy
    /\ Len(testcases) = MaxCases
    /\ output_file = EarlierOutput

\* the service answered the item with a well-formed successful response
Answered(outcome) ==
    /\ outcome.kind = "response"
    /\ outcome.status = 200
    /\ outcome.body.ty = "dict"
    /\ Get(outcome.body.v, "success", FALSE)
    /\ AllSourcesAreDicts(outcome.body.v)

\* the item's response cannot be formatted: a source of it is not a dict
FormatRaises(outcome) ==
    /\ outcome.kind = "response"
    /\ outcome.status = 200
    /\ outcome.body.ty = "dict"
    /\ Get(outcome.body.v, "success", FALSE)
    /\ ~AllSourcesAreDicts(outcome.body.v)

HasError(testcase) == "error" \in DOMAIN testcase /\ testcase["error"] /= ""

HasOwnAnswer(testcase, outcome) ==
    /\ "actual_output" \in DOMAIN testcase
    /\ "generated_answer" \in DOMAIN testcase
    /\ testcase["actual_output"] = outcome.body.v["answer"]
    /\ testcase["generated_answer"] = outcome.body.v["answer"]

\* C3: an item whose step raises ends with actual_output = "" and an error
\* string; every item whose step does not raise has the answer of its own
\* response; the loop goes on with the next item, no item is skipped, and
\* at the end the augmented collection is what is saved.
C3_ItemFailureIsIsolated ==
    /\ pc \in {"loop", "done"} =>
          /\ idx = Len(served) + 1
          /\ Len(served) <= Len(testcases)
          /\ \A k \in 1..Len(served) :
                IF Answered(served[k])
                THEN HasOwnAnswer(testcases[k], served[k])
                ELSE testcases[k]["actual_output"] = "" /\ HasError(testcases[k])
          /\ \A k \in 1..Len(testcases) :
                /\ testcases[k]["id"] = <<"tc", k>>
                /\ k > Len(served) => DOMAIN testcases[k] = {"id", "question"}
    /\ pc = "done" =>
          /\ Len(served) = Len(testcases)
          /\ output_file = [exists |-> TRUE, data |-> testcases]

\* the run is over; formatting the second of three items raised and the
\* items around it were answered
C3_Witness ==
    /\ pc = "done"
    /\ Len(served) = 3
    /\ Answered(served[1]) /\ FormatRaises(served[2]) /\ Answered(served[3])
    /\ served[1].body.v["answer"] /= served[3].body.v["answer"]
    /\ output_file.exists

\* ask_question returned a failure record for the item
FailedCall(outcome) == outcome.kind = "raise" \/ outcome.status >= 400

\* the saved collection: failed calls annotated, answers in their own items
AnnotatedOutput ==
    /\ pc = "done"
    /\ output_file = [exists |-> TRUE, data |-> testcases]
    /\ Len(served) = Len(testcases)
    /\ \A k \in 1..Len(testcases) :
          /\ FailedCall(served[k]) => HasError(output_file.data[k])
          /\ Answered(served[k]) => HasOwnAnswer(output_file.data[k], served[k])

\* C5: once the health check has passed, the run always reaches its end,
\* whichever calls fail: every test case is asked, the collection is saved,
\* each failed call is an error string on its test case and the other test
\* cases carry the answers of their own responses.
C5_FailedCallNeverEndsRun ==
    (pc = "loop") ~> AnnotatedOutput

\* the run is over; the first call failed and a later one was answered
C5_Witness ==
    /\ AnnotatedOutput
    /\ Len(served) >= 2
    /\ FailedCall(served[1])
    /\ Answered(served[Len(served)])

\* ---- convert_json_to_csv -----------------------------------------------
Converted == csv_status /= "ready" /\ csv_status /= "idle"

\* the fields of a result in either documented shape
PassagesOf(result) ==
    IF "contexts" \in DOMAIN result THEN result["contexts"]
    ELSE IF "sources" \in DOMAIN result THEN result["sources"]
    ELSE <<>>
AnswerOf(result) ==
    IF "answer" \in DOMAIN result THEN result["answer"] ELSE result["actual_output"]
IdOf(result) ==
    IF "question_id" \in DOMAIN result THEN result["question_id"] ELSE result["testcase_id"]

RowCount(result) == IF Len(PassagesOf(result)) = 0 THEN 1 ELSE Len(PassagesOf(result))

RECURSIVE RowsBefore(_)
RowsBefore(k) == IF k <= 1 THEN 0 ELSE RowsBefore(k - 1) + RowCount(results[k - 1])

\* C7: every result with n passages has max(1, n) consecutive rows, in
\* passage order, with the result's query_id and query, query_run 1 and
\* passage_id [i] on the i-th; the answer is on the row [1] only; for n = 0
\* the one row has an empty passage and carries the answer.
C7_RowsPerPassage ==
    Converted =>
        /\ Len(csv_rows) = RowsBefore(Len(results) + 1)
        /\ \A k \in 1..Len(results) : \A n \in 1..RowCount(results[k]) :
              LET row == csv_rows[RowsBefore(k) + n]
              IN  /\ row.query_id = IdOf(results[k])
                  /\ row.query = results[k]["question"]
                  /\ row.query_run = 1
                  /\ row.passage_id = <<"[">> \o Decimal(n) \o <<"]">>
                  /\ row.generated_answer = (IF n = 1 THEN AnswerOf(results[k]) ELSE "")
                  /\ PassagesOf(results[k]) = <<>> => row.passage = <<>>

\* C8: a collection in either documented shape is converted without a
\* fault, with the same number of rows per result.
C8_BothShapesConverted ==
    Converted =>
        /\ csv_status = "written"
        /\ Len(csv_rows) = RowsBefore(Len(results) + 1)

====
